---- MODULE Spec2Model ----
(***************************************************************************)
(* Model of src/app.rs of viz: the driver `run` and the five stages it     *)
(* calls in order (configure_colors, get_content_and_extension,            *)
(* get_indent, get_parsed_data, print_parsed_data).                        *)
(*                                                                         *)
(* Text that the driver inspects (the path, its extension, the language    *)
(* tag) is a sequence of one-character strings, so that Path::extension    *)
(* and to_lowercase are computed and not assumed.  Text that the driver    *)
(* only passes on (file and stdin contents) is an opaque token.            *)
(* Option<T> is a sequence of length 0 (None) or 1 (Some).                 *)
(***************************************************************************)
EXTENDS Integers, Sequences, FiniteSets, TLC

VARIABLES args, env, fs, stdin, pc, color_override, contents, extension,
          indent, data, result, calls, adapters, out, err

vars == <<args, env, fs, stdin, pc, color_override, contents, extension,
          indent, data, result, calls, adapters, out, err>>

----------------------------------------------------------------------------
(* Bounds of the model *)

\* largest value of --indent that is tried (values above 10 must occur)
MaxIndentArg == 11
\* largest number of top-level entries of a parsed root object
MaxEntries == 2

(* Program constants *)

\* the ceiling of get_indent
IndentCeiling == 10
\* the indent used when --indent is absent
DefaultIndent == 2

----------------------------------------------------------------------------
(* Option and Result *)

None == <<>>
Some(x) == <<x>>
is_some(o) == Len(o) = 1
unwrap(o) == o[1]

Ok(v) == [tag |-> "Ok", val |-> v]
Err(m) == [tag |-> "Err", msg |-> m]
\* Option::unwrap on None: the thread panics and the function never returns
Panic == [tag |-> "Panic"]

----------------------------------------------------------------------------
(* Text *)

Upper == <<"A","B","C","D","E","F","G","H","I","J","K","L","M",
           "N","O","P","Q","R","S","T","U","V","W","X","Y","Z">>
Lower == <<"a","b","c","d","e","f","g","h","i","j","k","l","m",
           "n","o","p","q","r","s","t","u","v","w","x","y","z">>

lower_char(c) ==
    IF \E i \in 1..26 : Upper[i] = c
    THEN Lower[CHOOSE i \in 1..26 : Upper[i] = c]
    ELSE c

to_lowercase(s) == [i \in 1..Len(s) |-> lower_char(s[i])]

\* position of the last occurrence of c in s, 0 when there is none
last_index(s, c) ==
    IF \E i \in 1..Len(s) : s[i] = c
    THEN CHOOSE i \in 1..Len(s) : s[i] = c /\ \A j \in (i+1)..Len(s) : s[j] # c
    ELSE 0

\* Path::file_name: the final component; None when it is ".."
file_name(path) ==
    LET k == last_index(path, "/")
        comp == SubSeq(path, k + 1, Len(path))
    IN IF comp = <<".", ".">> \/ comp = <<>> THEN None ELSE Some(comp)

\* Path::extension: None without a file name, without an embedded ".",
\* or when the only "." begins the name; else the part after the last "."
path_extension(path) ==
    LET f == file_name(path)
    IN IF ~is_some(f) THEN None
       ELSE LET name == unwrap(f)
                k == last_index(name, ".")
            IN IF k = 0 \/ k = 1 THEN None
               ELSE Some(SubSeq(name, k + 1, Len(name)))

S_json == <<"j","s","o","n">>
S_toml == <<"t","o","m","l">>
S_yaml == <<"y","a","m","l">>
S_yml == <<"y","m","l">>

----------------------------------------------------------------------------
(* Inputs *)

Paths == {
    <<"a",".","j","s","o","n">>,
    <<"a",".","J","s","o","N">>,
    <<"b",".","t","o","m","l">>,
    <<"c",".","y","a","m","l">>,
    <<"c",".","Y","M","L">>,
    <<"d",".","t","x","t">>,
    <<"e",".">>,
    <<"f">>,
    <<".","j","s","o","n">>,
    <<"x",".","d","/","f">> }

PathArgs == {None, Some(<<>>)} \cup {Some(p) : p \in Paths}

LanguageArgs == {None, Some(S_json), Some(<<"J","S","O","N">>), Some(S_toml),
                 Some(S_yml), Some(<<"x","m","l">>)}

IndentArgs == {None} \cup {Some(i) : i \in 0..MaxIndentArg}

\* what the environment holds for NO_COLOR: unset, or set to a Unicode
\* value (here "" or "1"), or set to bytes that are not valid Unicode
EnvNoColor == {[set |-> FALSE],
               [set |-> TRUE, unicode |-> TRUE, value |-> <<>>],
               [set |-> TRUE, unicode |-> TRUE, value |-> <<"1">>],
               [set |-> TRUE, unicode |-> FALSE]}

\* the file named by the path argument
FileStates == {"missing", "unreadable", "readable"}
\* standard input: readable to its end as UTF-8, or not
StdinStates == {"readable", "unreadable"}

FileText == "file text"
StdinText == "stdin text"

Keys == {"a", "b", "c"}
Member == {[type |-> "Null"], [type |-> "Number", n |-> 1]}

\* the entries of an Object: key/value pairs in iteration order, keys unique
EntryLists ==
    {e \in UNION {[1..n -> Keys \X Member] : n \in 0..MaxEntries} :
        \A i, j \in 1..Len(e) : e[i][1] = e[j][1] => i = j}

Object(e) == [type |-> "Object", entries |-> e]

VizValue ==
    {Object(e) : e \in EntryLists}
    \cup {[type |-> "Array", items |-> <<>>], [type |-> "Null"]}

\* what a processor may hand back for a text
ProcessorReturns == {Ok(v) : v \in VizValue} \cup {Err("parse error")}

----------------------------------------------------------------------------
(* The stages *)

\* std::env::var: Err when the variable is unset or is not valid Unicode
env_var(e) ==
    IF ~e.set THEN Err("NotPresent")
    ELSE IF ~e.unicode THEN Err("NotUnicode")
    ELSE Ok(e.value)

configure_colors(a, e) ==
    LET no_color == env_var(e)
    IN IF no_color.tag = "Ok" THEN FALSE ELSE ~a.no_color

\* mutant: a missing language tag falls back to json
get_from_stdin_default_json(a, sin) ==
    IF sin # "readable" THEN Err("failed to read from stdin")
    ELSE IF is_some(a.language) THEN Ok(<<StdinText, unwrap(a.language)>>)
    ELSE Ok(<<StdinText, S_json>>)

get_from_stdin(a, sin) ==
    IF sin # "readable" THEN Err("failed to read from stdin")
    ELSE IF is_some(a.language) THEN Ok(<<StdinText, unwrap(a.language)>>)
    ELSE Err("language is not specified for stdin")

get_file_content(file_path, f) ==
    IF f = "missing" THEN Err("file not found")
    ELSE IF f # "readable" THEN Err("failed to read file")
    ELSE LET ext == path_extension(file_path)
         IN IF ~is_some(ext) THEN Panic
            ELSE Ok(<<FileText, to_lowercase(unwrap(ext))>>)

get_content_and_extension(a, f, sin) ==
    LET file_path == IF is_some(a.path) THEN unwrap(a.path) ELSE <<>>
    IN IF file_path = <<>> THEN get_from_stdin(a, sin)
       ELSE get_file_content(file_path, f)

\* mutant: the ceiling is exclusive
get_indent_ceiling_exclusive(a) ==
    LET i == IF is_some(a.indent) THEN unwrap(a.indent) ELSE DefaultIndent
    IN IF i >= IndentCeiling
       THEN Err("indentation level must be less than or equal to 10.")
       ELSE Ok(i)

get_indent(a) ==
    LET i == IF is_some(a.indent) THEN unwrap(a.indent) ELSE DefaultIndent
    IN IF i > IndentCeiling
       THEN Err("indentation level must be less than or equal to 10.")
       ELSE Ok(i)

\* the processor that the match arm of get_parsed_data names, if any
processor_for(ext) ==
    IF ext = S_json THEN Some("JSONProcessor")
    ELSE IF ext = S_toml THEN Some("TOMLProcessor")
    ELSE IF ext = S_yaml \/ ext = S_yml THEN Some("YAMLProcessor")
    ELSE None

\* mutant: the tag is matched without regard to case
get_parsed_data_ignore_case(text, ext, ret) ==
    LET p == processor_for(to_lowercase(ext))
    IN IF is_some(p)
       THEN [res |-> ret,
             adapters |-> <<[processor |-> unwrap(p), text |-> text, ret |-> ret]>>]
       ELSE [res |-> Err("unsupported file format."), adapters |-> <<>>]

\* ret is what the chosen processor returns for the text; the result is the
\* function's return value and the processor calls it made
get_parsed_data(text, ext, ret) ==
    LET p == processor_for(ext)
    IN IF is_some(p)
       THEN [res |-> ret,
             adapters |-> <<[processor |-> unwrap(p), text |-> text, ret |-> ret]>>]
       ELSE [res |-> Err("unsupported file format."), adapters |-> <<>>]

println(text) == [op |-> "println", text |-> text]

print_object_data(key, val, current_indent, ind, last, flag) ==
    [op |-> "print_object_data", key |-> key, val |-> val,
     current_indent |-> current_indent, indent |-> ind, last |-> last,
     flag |-> flag]

\* mutant: the opening brace is written before the root is inspected
print_parsed_data_brace_first(d, ind) ==
    IF d.type = "Object"
    THEN LET entries == d.entries
             total == Len(entries)
         IN [out |-> <<println("{")>>
                     \o [i \in 1..total |->
                           print_object_data(entries[i][1], entries[i][2],
                                             ind, ind, (i - 1) + 1 = total, TRUE)]
                     \o <<println("}")>>,
             err |-> <<>>,
             exit |-> None]
    ELSE [out |-> <<println("{")>>,
          err |-> <<"internal error: parsed data is not a valid object.">>,
          exit |-> Some(1)]

\* mutant: last is computed as i == total on the zero-based index
print_parsed_data_last_off_by_one(d, ind) ==
    IF d.type = "Object"
    THEN LET entries == d.entries
             total == Len(entries)
         IN [out |-> <<println("{")>>
                     \o [i \in 1..total |->
                           print_object_data(entries[i][1], entries[i][2],
                                             ind, ind, (i - 1) = total, TRUE)]
                     \o <<println("}")>>,
             err |-> <<>>,
             exit |-> None]
    ELSE [out |-> <<>>,
          err |-> <<"internal error: parsed data is not a valid object.">>,
          exit |-> Some(1)]

\* mutant: the entries are walked from the back
print_parsed_data_reversed(d, ind) ==
    IF d.type = "Object"
    THEN LET entries == d.entries
             total == Len(entries)
         IN [out |-> <<println("{")>>
                     \o [i \in 1..total |->
                           print_object_data(entries[total + 1 - i][1],
                                             entries[total + 1 - i][2],
                                             ind, ind, (i - 1) + 1 = total, TRUE)]
                     \o <<println("}")>>,
             err |-> <<>>,
             exit |-> None]
    ELSE [out |-> <<>>,
          err |-> <<"internal error: parsed data is not a valid object.">>,
          exit |-> Some(1)]

\* the writes to standard output, the Messages::error reports and the exit
\* status, if the function ends the process
print_parsed_data(d, ind) ==
    IF d.type = "Object"
    THEN LET entries == d.entries
             total == Len(entries)
         IN [out |-> <<println("{")>>
                     \o [i \in 1..total |->
                           print_object_data(entries[i][1], entries[i][2],
                                             ind, ind, (i - 1) + 1 = total, TRUE)]
                     \o <<println("}")>>,
             err |-> <<>>,
             exit |-> None]
    ELSE [out |-> <<>>,
          err |-> <<"internal error: parsed data is not a valid object.">>,
          exit |-> Some(1)]

----------------------------------------------------------------------------
(* run *)

Init ==
    /\ args \in [path : PathArgs, language : LanguageArgs,
                 indent : IndentArgs, no_color : BOOLEAN]
    /\ env \in EnvNoColor
    /\ fs \in FileStates
    /\ stdin \in StdinStates
    /\ pc = "configure_colors"
    /\ color_override = None
    /\ contents = None
    /\ extension = None
    /\ indent = None
    /\ data = None
    /\ result = None
    /\ calls = <<>>
    /\ adapters = <<>>
    /\ out = <<>>
    /\ err = <<>>

run_configure_colors ==
    /\ pc = "configure_colors"
    /\ color_override' = Some(configure_colors(args, env))
    /\ calls' = Append(calls, "configure_colors")
    /\ pc' = "get_content_and_extension"
    /\ UNCHANGED <<args, env, fs, stdin, contents, extension, indent, data,
                   result, adapters, out, err>>

run_get_content_and_extension ==
    /\ pc = "get_content_and_extension"
    /\ calls' = Append(calls, "get_content_and_extension")
    /\ LET r == get_content_and_extension(args, fs, stdin)
       IN IF r.tag = "Ok"
          THEN /\ contents' = Some(r.val[1])
               /\ extension' = Some(r.val[2])
               /\ pc' = "get_indent"
               /\ UNCHANGED result
          ELSE /\ result' = Some(r)
               /\ pc' = "done"
               /\ UNCHANGED <<contents, extension>>
    /\ UNCHANGED <<args, env, fs, stdin, color_override, indent, data,
                   adapters, out, err>>

\* mutant: an indent above the ceiling is clamped and the run goes on
run_get_indent_clamped ==
    /\ pc = "get_indent"
    /\ calls' = Append(calls, "get_indent")
    /\ LET r == get_indent(args)
       IN /\ indent' = Some(IF r.tag = "Ok" THEN r.val ELSE IndentCeiling)
          /\ pc' = "get_parsed_data"
          /\ UNCHANGED result
    /\ UNCHANGED <<args, env, fs, stdin, color_override, contents, extension,
                   data, adapters, out, err>>

run_get_indent ==
    /\ pc = "get_indent"
    /\ calls' = Append(calls, "get_indent")
    /\ LET r == get_indent(args)
       IN IF r.tag = "Ok"
          THEN /\ indent' = Some(r.val)
               /\ pc' = "get_parsed_data"
               /\ UNCHANGED result
          ELSE /\ result' = Some(r)
               /\ pc' = "done"
               /\ UNCHANGED indent
    /\ UNCHANGED <<args, env, fs, stdin, color_override, contents, extension,
                   data, adapters, out, err>>

run_get_parsed_data ==
    /\ pc = "get_parsed_data"
    /\ calls' = Append(calls, "get_parsed_data")
    /\ \E ret \in ProcessorReturns :
         LET r == get_parsed_data(unwrap(contents), unwrap(extension), ret)
         IN /\ adapters' = adapters \o r.adapters
            /\ IF r.res.tag = "Ok"
               THEN /\ data' = Some(r.res.val)
                    /\ pc' = "print_parsed_data"
                    /\ UNCHANGED result
               ELSE /\ result' = Some(r.res)
                    /\ pc' = "done"
                    /\ UNCHANGED data
    /\ UNCHANGED <<args, env, fs, stdin, color_override, contents, extension,
                   indent, out, err>>

run_print_parsed_data ==
    /\ pc = "print_parsed_data"
    /\ calls' = Append(calls, "print_parsed_data")
    /\ LET r == print_parsed_data(unwrap(data), unwrap(indent))
       IN /\ out' = out \o r.out
          /\ err' = err \o r.err
          /\ result' = IF is_some(r.exit)
                       THEN Some([tag |-> "Exit", code |-> unwrap(r.exit)])
                       ELSE Some(Ok(<<>>))
    /\ pc' = "done"
    /\ UNCHANGED <<args, env, fs, stdin, color_override, contents, extension,
                   indent, data, adapters>>

Next ==
    \/ run_configure_colors
    \/ run_get_content_and_extension
    \/ run_get_indent
    \/ run_get_parsed_data
    \/ run_print_parsed_data

Spec == Init /\ [][Next]_vars

----------------------------------------------------------------------------
(* Vocabulary of the properties *)

AllStages == <<"configure_colors", "get_content_and_extension", "get_indent",
               "get_parsed_data", "print_parsed_data">>

called(stage) == \E i \in 1..Len(calls) : calls[i] = stage
finished == pc = "done"

\* the path that get_content_and_extension works with
FilePath == IF is_some(args.path) THEN unwrap(args.path) ELSE <<>>
UsesStdin == FilePath = <<>>
\* the value of --indent, or the default
IndentGiven == IF is_some(args.indent) THEN unwrap(args.indent) ELSE 2

CeilingError == Err("indentation level must be less than or equal to 10.")
LanguageError == Err("language is not specified for stdin")
UnsupportedError == Err("unsupported file format.")
InternalError == "internal error: parsed data is not a valid object."

NothingParsedOrRendered ==
    adapters = <<>> /\ out = <<>> /\ ~called("get_parsed_data")
    /\ ~called("print_parsed_data")

\* the calls of print_object_data among the writes to standard output
PairCalls == SelectSeq(out, LAMBDA w : w.op = "print_object_data")

RootIsObject == is_some(data) /\ unwrap(data).type = "Object"
RootEntries == unwrap(data).entries

----------------------------------------------------------------------------
(* C1 *)

\* C1 as stated: whenever the indent supplied is above 10 the run ends with
\* the ceiling error, no adapter was invoked and print_parsed_data was never
\* reached; an indent of 0..10 (or the default 2) is returned unchanged.
C1_AsStated ==
    /\ (IndentGiven > 10 /\ finished) =>
            result = Some(CeilingError) /\ NothingParsedOrRendered
    /\ (IndentGiven <= 10 /\ called("get_indent")) => indent = Some(IndentGiven)

\* C1 amended: with an indent above 10 no run parses or renders; the run
\* ends with the ceiling error when get_content_and_extension returned its
\* pair, and with the outcome of get_content_and_extension when that stage
\* failed first; an indent of 0..10 (or the default 2) is returned unchanged.
C1_IndentCeiling ==
    /\ IndentGiven > 10 => NothingParsedOrRendered
    /\ (IndentGiven > 10 /\ finished /\ is_some(contents)) =>
            result = Some(CeilingError)
    /\ (IndentGiven > 10 /\ finished /\ ~is_some(contents)) =>
            result = Some(get_content_and_extension(args, fs, stdin))
    /\ (IndentGiven <= 10 /\ called("get_indent")) => indent = Some(IndentGiven)

C1_Witness ==
    /\ finished /\ args.indent = Some(11) /\ is_some(contents)
    /\ result = Some(CeilingError) /\ calls[Len(calls)] = "get_indent"

----------------------------------------------------------------------------
(* C2 *)

\* C2 as stated: with no file path and no language tag the run ends with the
\* missing-language error and nothing is parsed or rendered; with a tag the
\* pair (stdin text, tag) is returned.
C2_AsStated ==
    /\ (UsesStdin /\ ~is_some(args.language) /\ finished) =>
            result = Some(LanguageError) /\ NothingParsedOrRendered
    /\ (UsesStdin /\ is_some(args.language)
            /\ called("get_content_and_extension")) =>
            contents = Some(StdinText) /\ extension = args.language

\* C2 amended: with no file path, when standard input was read to its end,
\* a missing language tag ends the run with the missing-language error and
\* nothing is parsed or rendered, and a supplied tag gives the pair
\* (stdin text, tag); when standard input cannot be read the run ends with
\* the stdin read error, tag or no tag, and nothing is parsed or rendered.
C2_StdinLanguage ==
    /\ (UsesStdin /\ stdin = "readable" /\ ~is_some(args.language) /\ finished) =>
            result = Some(LanguageError) /\ NothingParsedOrRendered
    /\ (UsesStdin /\ stdin = "readable" /\ is_some(args.language)
            /\ called("get_content_and_extension")) =>
            contents = Some(StdinText) /\ extension = args.language
    /\ (UsesStdin /\ stdin # "readable" /\ finished) =>
            result = Some(Err("failed to read from stdin"))
            /\ NothingParsedOrRendered

C2_Witness ==
    /\ finished /\ UsesStdin /\ stdin = "readable" /\ ~is_some(args.language)
    /\ result = Some(LanguageError)
    /\ calls[Len(calls)] = "get_content_and_extension"

----------------------------------------------------------------------------
(* C3 *)

\* the extension of the path, lower-cased, names one of the four formats
RecognizedExtension ==
    /\ is_some(path_extension(FilePath))
    /\ to_lowercase(unwrap(path_extension(FilePath)))
            \in {S_json, S_toml, S_yaml, S_yml}

\* C3: for file input the tag is the extension lower-cased, and an existing,
\* readable file without a recognized extension (another extension or none)
\* ends in the error "unsupported file format" (the indent being valid).
C3_UnsupportedExtension ==
    /\ (~UsesStdin /\ is_some(extension)) =>
            /\ is_some(path_extension(FilePath))
            /\ extension = Some(to_lowercase(unwrap(path_extension(FilePath))))
    /\ (~UsesStdin /\ fs = "readable" /\ ~RecognizedExtension
            /\ IndentGiven <= 10 /\ finished) =>
            result = Some(UnsupportedError)

----------------------------------------------------------------------------
(* C4 *)

\* C4: when the root reaching print_parsed_data is not an Object, an
\* internal error is reported, the process exits with a non-zero status and
\* nothing, not even the opening brace, was written to standard output.
C4_NonObjectRoot ==
    (called("print_parsed_data") /\ ~RootIsObject) =>
        /\ err = <<InternalError>>
        /\ is_some(result) /\ unwrap(result).tag = "Exit"
        /\ unwrap(result).code # 0
        /\ out = <<>>

C4_Witness ==
    /\ called("print_parsed_data") /\ unwrap(data).type = "Array"
    /\ unwrap(result).tag = "Exit" /\ err # <<>>

----------------------------------------------------------------------------
(* C5 *)

\* C5: NO_COLOR, if set at all and whatever its value, forces color off and
\* overrides the flag; color is on exactly when NO_COLOR is not set and the
\* no-color flag is not given.
C5_NoColor ==
    called("configure_colors") =>
        color_override = Some(~env.set /\ ~args.no_color)

----------------------------------------------------------------------------
(* C6 *)

InputOutcome == get_content_and_extension(args, fs, stdin)
InputFails == InputOutcome.tag # "Ok"
IndentFails == IndentGiven > 10

----------------------------------------------------------------------------
(* C7 *)

\* C7: a root Object with zero entries is written as `{}` on a single line.
C7_EmptyRoot ==
    (called("print_parsed_data") /\ RootIsObject /\ RootEntries = <<>>) =>
        out = <<println("{}")>>

----------------------------------------------------------------------------
(* C8 *)

\* C8: for a root Object with n >= 1 entries exactly one top-level pair is
\* passed to print_object_data as last, the one at the final position of the
\* iteration; every pair before it is passed as not last.
C8_LastFlag ==
    (called("print_parsed_data") /\ RootIsObject /\ Len(RootEntries) >= 1) =>
        LET n == Len(RootEntries)
        IN /\ Len(PairCalls) = n
           /\ Cardinality({i \in 1..n : PairCalls[i].last}) = 1
           /\ PairCalls[n].last
           /\ \A i \in 1..(n - 1) : ~PairCalls[i].last

C8_Witness ==
    /\ called("print_parsed_data") /\ RootIsObject /\ Len(RootEntries) >= 2
    /\ Len(PairCalls) = Len(RootEntries)
    /\ ~PairCalls[1].last /\ PairCalls[Len(PairCalls)].last

----------------------------------------------------------------------------
(* C9 *)

\* C9: for a root Object the top-level pairs are rendered in the iteration
\* order of the map, each key once, with its own value, all of them after
\* the opening brace line and before the closing brace line.
C9_KeyOrder ==
    (called("print_parsed_data") /\ RootIsObject) =>
        LET n == Len(RootEntries)
        IN /\ Len(out) = n + 2
           /\ out[1] = println("{")
           /\ out[n + 2] = println("}")
           /\ \A i \in 1..n :
                /\ out[i + 1].op = "print_object_data"
                /\ out[i + 1].key = RootEntries[i][1]
                /\ out[i + 1].val = RootEntries[i][2]
           /\ \A k \in {RootEntries[i][1] : i \in 1..n} :
                Cardinality({j \in 1..Len(out) :
                    out[j].op = "print_object_data" /\ out[j].key = k}) = 1

C9_Witness ==
    /\ called("print_parsed_data") /\ RootIsObject /\ Len(RootEntries) >= 2
    /\ RootEntries[1][1] = "b" /\ RootEntries[2][1] = "a"
    /\ out[2].key = "b" /\ out[3].key = "a"

----------------------------------------------------------------------------
(* C10 *)

\* the processor each tag stands for, by exact match
ExpectedProcessor(tag) ==
    CASE tag = <<"j","s","o","n">> -> "JSONProcessor"
      [] tag = <<"t","o","m","l">> -> "TOMLProcessor"
      [] tag = <<"y","a","m","l">> -> "YAMLProcessor"
      [] tag = <<"y","m","l">> -> "YAMLProcessor"
      [] OTHER -> "none"

\* C10: get_parsed_data invokes, for the tag json, toml, yaml or yml, only
\* the processor of that format, once, on the contents, and returns its
\* value or its error unchanged; for any other tag (such as JSON given for
\* stdin, which is not lower-cased) it returns the unsupported-format error
\* and invokes no processor.
C10_Dispatch ==
    /\ (UsesStdin /\ is_some(extension)) => extension = args.language
    /\ called("get_parsed_data") =>
         LET want == ExpectedProcessor(unwrap(extension))
         IN IF want = "none"
            THEN adapters = <<>> /\ result = Some(UnsupportedError)
                 /\ ~is_some(data)
            ELSE /\ Len(adapters) = 1
                 /\ adapters[1].processor = want
                 /\ adapters[1].text = unwrap(contents)
                 /\ IF adapters[1].ret.tag = "Ok"
                    THEN data = Some(adapters[1].ret.val)
                    ELSE result = Some(adapters[1].ret) /\ ~is_some(data)

C10_Witness ==
    /\ finished /\ UsesStdin /\ args.language = Some(<<"J","S","O","N">>)
    /\ extension = args.language /\ called("get_parsed_data")
    /\ adapters = <<>> /\ result = Some(UnsupportedError)

====
